---- MODULE Spec2Model ----
(***************************************************************************)
(* Model of the pymodbus framing layer: FramerBase (framer/base.py) and    *)
(* FramerRTU (framer/rtu.py).                                              *)
(*                                                                         *)
(* Bytes are integers 0..255, byte strings are sequences of bytes.         *)
(* One framer instance is modelled.  It is either the FramerRTU class of   *)
(* rtu.py (which overrides decode) or a FramerBase subclass whose          *)
(* specific_decode follows the documented RTU design ("FramerSpec").       *)
(***************************************************************************)
EXTENDS Integers, Sequences, FiniteSets, TLC

(***************************************************************************)
(* Bounds of the model.                                                    *)
(***************************************************************************)
\* largest number of garbage bytes in front of the first frame of a stream
MaxGarbage == 2
\* largest number of processIncomingPacket calls in one behaviour
MaxCalls == 2
\* largest number of direct decode / encode calls in one behaviour
MaxOps == 3
\* largest length of a byte string handed to compute_CRC directly
MaxCrcLen == 3

(***************************************************************************)
(* Integer helpers for Python's bit operators on non-negative ints.        *)
(***************************************************************************)
RECURSIVE Xor(_, _)
Xor(a, b) ==
    IF a = 0 THEN b
    ELSE IF b = 0 THEN a
    ELSE (((a % 2) + (b % 2)) % 2) + (2 * Xor(a \div 2, b \div 2))

\* b[lo:hi] of Python, 0-based, hi exclusive, clamped like a slice
Slice(s, lo, hi) ==
    LET h == IF hi > Len(s) THEN Len(s) ELSE hi
    IN  IF lo >= h THEN << >> ELSE SubSeq(s, lo + 1, h)

\* b[n:] of Python
Drop(s, n) == Slice(s, n, Len(s))

(***************************************************************************)
(* FramerRTU class constants.                                              *)
(***************************************************************************)
MIN_SIZE == 5

EMPTY == << >>

(***************************************************************************)
(* CRC16 (rtu.py).                                                         *)
(***************************************************************************)
\* the inner "for _ in range(8)" loop of generate_crc16_table
RECURSIVE crc16_table_loop(_, _, _)
crc16_table_loop(byte, crc, n) ==
    IF n = 0 THEN crc
    ELSE IF Xor(byte, crc) % 2 = 1
         THEN crc16_table_loop(byte \div 2, Xor(crc \div 2, 40961), n - 1)
         ELSE crc16_table_loop(byte \div 2, crc \div 2, n - 1)

generate_crc16_table == [i \in 0..255 |-> crc16_table_loop(i, 0, 8)]

\* FramerRTU.crc16_table after the module-level assignment; indexed by 0..255
crc16_table == generate_crc16_table

\* the "for data_byte in data" loop of compute_CRC, from position i (1-based)
RECURSIVE compute_CRC_loop(_, _, _)
compute_CRC_loop(data, i, crc) ==
    IF i > Len(data) THEN crc
    ELSE LET idx == crc16_table[Xor(crc, data[i]) % 256]
         IN  compute_CRC_loop(data, i + 1, Xor((crc \div 256) % 256, idx))

\* mutant of compute_CRC: the result is returned without the byte swap
compute_CRC_unswapped(data) == compute_CRC_loop(data, 1, 65535)

compute_CRC(data) ==
    LET crc == compute_CRC_loop(data, 1, 65535)
        swapped == ((crc * 256) % 65536) + ((crc \div 256) % 256)
    IN  swapped

\* mutant of check_CRC: only the top four bits are compared
check_CRC_top_nibble(data, check) ==
    compute_CRC(data) \div 4096 = check \div 4096

check_CRC(data, check) == compute_CRC(data) = check

\* mutant of to_bytes2: int.to_bytes(2, 'little')
to_bytes2_little(n) == << n % 256, n \div 256 >>

\* int.to_bytes(2, 'big') for 0..65535
to_bytes2(n) == << n \div 256, n % 256 >>

\* FramerRTU.encode(pdu, device_id, _tid)
encode(pdu, device_id, tid) ==
    LET packet == << device_id >> \o pdu
    IN  packet \o to_bytes2(compute_CRC(packet))

(***************************************************************************)
(* Message codec (pymodbus.factory ClientDecoder / ServerDecoder).  The    *)
(* model's protocol has two function codes with fixed frame lengths and    *)
(* one data value the codec cannot interpret.                              *)
(***************************************************************************)
\* total ADU length implied by the function code, 0 when the code is unknown
frame_length_hint(function_code) ==
    IF function_code = 1 THEN 5
    ELSE IF function_code = 2 THEN 6
    ELSE 0

\* data byte the codec rejects
BadData == 255

\* decoder.decode(data): << >> stands for None, else a one-element sequence
\* holding the message object (ids are stamped by the caller)
decoder_decode(data) ==
    IF Len(data) >= 2 /\ data[2] = BadData
    THEN << >>
    ELSE << [pdu |-> data, slave_id |-> 0, transaction_id |-> 0] >>

(***************************************************************************)
(* decode.  A decode outcome is [ret, dev, tid]: the returned tuple and    *)
(* the correlation state (incoming_dev_id, incoming_tid) after the call.   *)
(***************************************************************************)
\* FramerRTU.decode (rtu.py): overrides FramerBase.decode, returns 4-tuples
FramerRTU_decode(data, dev, tid) ==
    IF Len(data) < MIN_SIZE
    THEN [ret |-> << 0, 0, 0, EMPTY >>, dev |-> dev, tid |-> tid]
    ELSE [ret |-> << 0, 0, 0, EMPTY >>, dev |-> dev, tid |-> tid]

\* specific_decode of the documented RTU design: candidate frame at offset
\* 0, length from the function code, trailing checksum verified, one byte
\* discarded on a rejected candidate.  vt is the transaction id the variant
\* stamps on a recognized frame (0: the serial format carries none).
specific_decode(data, data_len, dev, tid, vt) ==
    LET L == frame_length_hint(data[2])
    IN  IF L = 0
        THEN [ret |-> << 1, EMPTY >>, dev |-> dev, tid |-> tid]
        ELSE IF data_len < L
        THEN [ret |-> << 0, EMPTY >>, dev |-> dev, tid |-> tid]
        ELSE IF check_CRC(Slice(data, 0, L - 2), (data[L - 1] * 256) + data[L])
        THEN [ret |-> << L, Slice(data, 1, L - 2) >>, dev |-> data[1], tid |-> vt]
        ELSE [ret |-> << 1, EMPTY >>, dev |-> dev, tid |-> tid]

\* mutant of FramerBase_decode: an empty result counts incoming_tid up in
\* place of clearing it
FramerBase_decode_counting(data, dev, tid, vt) ==
    IF Len(data) < MIN_SIZE
    THEN [ret |-> << 0, EMPTY >>, dev |-> dev, tid |-> tid]
    ELSE LET r == specific_decode(data, Len(data), dev, tid, vt)
         IN  IF r.ret[2] = EMPTY
             THEN [ret |-> r.ret, dev |-> 0, tid |-> tid + 1]
             ELSE r

\* FramerBase.decode (base.py)
FramerBase_decode(data, dev, tid, vt) ==
    IF Len(data) < MIN_SIZE
    THEN [ret |-> << 0, EMPTY >>, dev |-> dev, tid |-> tid]
    ELSE LET r == specific_decode(data, Len(data), dev, tid, vt)
         IN  IF r.ret[2] = EMPTY
             THEN [ret |-> r.ret, dev |-> 0, tid |-> 0]
             ELSE r

\* mutant of decode: the FramerRTU override is not in effect
decode_base(fr, data, dev, tid, vt) == FramerBase_decode(data, dev, tid, vt)

\* self.decode(data): method resolution on the framer class
decode(fr, data, dev, tid, vt) ==
    IF fr = "FramerRTU"
    THEN FramerRTU_decode(data, dev, tid)
    ELSE FramerBase_decode(data, dev, tid, vt)

(***************************************************************************)
(* processIncomingPacket (base.py).                                        *)
(*                                                                         *)
(* A framer state is [databuffer, dev, tid, trace, err].  trace records    *)
(* one event per loop iteration that called decode:                        *)
(*   kind    "unpack"   the decode result could not be unpacked            *)
(*           "nodata"   decode produced no payload, the call returned      *)
(*           "filter"   the frame was rejected by the device filter        *)
(*           "codec"    the codec returned None, ModbusIOException raised  *)
(*           "tid"      the frame was dropped by the transaction check     *)
(*           "call"     callback(result) was invoked                       *)
(*   before  databuffer handed to decode                                   *)
(*   ret     the tuple decode returned                                     *)
(*   msg     the message (pdu, slave_id, transaction_id) where one exists  *)
(*   after   databuffer when the iteration ended / the callback ran        *)
(* err is "none" on a normal return, else the exception that propagated,   *)
(* or "nonterminating" when the loop is still running after as many        *)
(* iterations as the buffer had bytes.                                     *)
(***************************************************************************)
NoMsg == [pdu |-> EMPTY, slave_id |-> 0, transaction_id |-> 0]

Event(kind, before, ret, msg, after) ==
    [kind |-> kind, before |-> before, ret |-> ret, msg |-> msg, after |-> after]

\* "if not isinstance(slave, (list, tuple)): slave = [slave]"; the argument
\* is << "list", ids >> or << "int", id >>
slave_list(slave) == IF slave[1] = "list" THEN slave[2] ELSE << slave[2] >>

InSeq(x, s) == \E i \in 1..Len(s) : s[i] = x

\* mutant of device_rejected: the membership test on the device id inverted
device_rejected_inverted(slave, dev) ==
    /\ slave # << >>
    /\ ~InSeq(0, slave)
    /\ InSeq(dev, slave)

\* mutant of device_rejected: the wildcard id 0 is not honoured
device_rejected_no_wildcard(slave, dev) ==
    /\ slave # << >>
    /\ ~InSeq(dev, slave)

\* "slave and 0 not in slave and self.incoming_dev_id not in slave"
device_rejected(slave, dev) ==
    /\ slave # << >>
    /\ ~InSeq(0, slave)
    /\ ~InSeq(dev, slave)

\* mutant of tid_mismatch: "==" in place of "!="
tid_mismatch_equal(tid, transaction_id) ==
    /\ tid # << >>
    /\ tid[1] # 0
    /\ transaction_id # 0
    /\ tid[1] = transaction_id

\* "tid and result.transaction_id and tid != result.transaction_id"; the
\* argument is << >> for None, else << id >>
tid_mismatch(tid, transaction_id) ==
    /\ tid # << >>
    /\ tid[1] # 0
    /\ transaction_id # 0
    /\ tid[1] # transaction_id

\* mutant of append_data: "=" in place of "+="
append_data_overwrite(databuffer, data) == data

\* "self.databuffer += data"
append_data(databuffer, data) == databuffer \o data

\* mutant of advance: "[:used_len]" in place of "[used_len:]"
advance_keep_head(databuffer, used_len) ==
    IF used_len # 0 THEN Slice(databuffer, 0, used_len) ELSE databuffer

\* mutant of advance: the buffer is not advanced
advance_skip(databuffer, used_len) == databuffer

\* "if used_len: self.databuffer = self.databuffer[used_len:]"
advance(databuffer, used_len) ==
    IF used_len # 0 THEN Drop(databuffer, used_len) ELSE databuffer

\* "self.databuffer = b''" on a frame for another device
discard_filtered(databuffer) == << >>

\* mutant of discard_undecodable: the buffer is left as it is
discard_undecodable_keep(databuffer) == databuffer

\* "self.databuffer = b''" before ModbusIOException is raised
discard_undecodable(databuffer) == << >>

\* "self.databuffer = b''" on a transaction id mismatch
discard_mismatched(databuffer) == << >>

\* "self.databuffer = self.databuffer[used_len:]" after "Frame advanced"
advance_dispatched(databuffer, used_len) == Drop(databuffer, used_len)

\* mutant of no_payload: "if data: return"
no_payload_inverted(data) == data # EMPTY

\* "if not data: return"
no_payload(data) == data = EMPTY

\* the "while True" loop; fuel is the number of iterations still followed
RECURSIVE process_loop(_, _, _, _, _, _)
process_loop(fr, vt, s, slave, tid, fuel) ==
    IF s.databuffer = << >>
    THEN s
    ELSE IF fuel = 0
    THEN [s EXCEPT !.err = "nonterminating"]
    ELSE
      LET d    == decode(fr, s.databuffer, s.dev, s.tid, vt)
          s1   == [s EXCEPT !.dev = d.dev, !.tid = d.tid]
      IN
      IF Len(d.ret) # 2
      THEN [s1 EXCEPT !.err = "ValueError",
                      !.trace = Append(@, Event("unpack", s.databuffer, d.ret,
                                                NoMsg, s.databuffer))]
      ELSE
        LET used_len == d.ret[1]
            data     == d.ret[2]
            buf1     == advance(s.databuffer, used_len)
        IN
        IF no_payload(data)
        THEN [s1 EXCEPT !.databuffer = buf1,
                        !.trace = Append(@, Event("nodata", s.databuffer, d.ret,
                                                  NoMsg, buf1))]
        ELSE IF device_rejected(slave, d.dev)
        THEN process_loop(fr, vt,
                 [s1 EXCEPT !.databuffer = discard_filtered(buf1),
                            !.trace = Append(@, Event("filter", s.databuffer, d.ret,
                                   [NoMsg EXCEPT !.slave_id = d.dev],
                                   discard_filtered(buf1)))],
                 slave, tid, fuel - 1)
        ELSE
          LET result == decoder_decode(data)
          IN
          IF result = << >>
          THEN [s1 EXCEPT !.databuffer = discard_undecodable(buf1),
                          !.err = "ModbusIOException",
                          !.trace = Append(@, Event("codec", s.databuffer, d.ret,
                                 [NoMsg EXCEPT !.slave_id = d.dev],
                                 discard_undecodable(buf1)))]
          ELSE
            LET msg  == [result[1] EXCEPT !.slave_id = d.dev,
                                          !.transaction_id = d.tid]
                buf2 == advance_dispatched(buf1, used_len)
            IN
            IF tid_mismatch(tid, msg.transaction_id)
            THEN process_loop(fr, vt,
                     [s1 EXCEPT !.databuffer = discard_mismatched(buf2),
                                !.trace = Append(@, Event("tid", s.databuffer,
                                          d.ret, msg, discard_mismatched(buf2)))],
                     slave, tid, fuel - 1)
            ELSE process_loop(fr, vt,
                     [s1 EXCEPT !.databuffer = buf2,
                                !.trace = Append(@, Event("call", s.databuffer,
                                                          d.ret, msg, buf2))],
                     slave, tid, fuel - 1)

\* processIncomingPacket(data, callback, slave, tid) on framer state
\* [databuffer, dev, tid]; yields the state when the call ends
processIncomingPacket(fr, vt, databuffer, dev, itid, data, slave, tid) ==
    LET s0 == [databuffer |-> append_data(databuffer, data), dev |-> dev, tid |-> itid,
               trace |-> << >>, err |-> "none"]
    IN  IF s0.databuffer = << >>
        THEN s0
        ELSE process_loop(fr, vt, s0, slave_list(slave), tid,
                          Len(s0.databuffer))

\* the messages handed to the callback, in order
Dispatched(trace) ==
    LET calls == SelectSeq(trace, LAMBDA e : e.kind = "call")
    IN  [i \in 1..Len(calls) |-> calls[i].msg]

(***************************************************************************)
(* Inputs.                                                                 *)
(***************************************************************************)
\* PDUs handed to encode: function code 1 (one data byte), function code 2
\* (two data bytes); << 1, BadData >> frames correctly but is not decodable
Payloads == { << 1, 16 >>, << 1, BadData >>, << 2, 16, 32 >> }

DevIds == { 3, 7 }

\* line noise: no prefix of it followed by a frame starts a valid frame
GarbagePattern == << 9, 1, 9, 1 >>

Garbage(n) == Slice(GarbagePattern, 0, n)

\* what the peer puts on the wire: garbage and one frame, or two frames
FrameSpecs == [pdu : Payloads, dev : DevIds]

\* the frames that follow another frame on the wire
SecondSpecs == { [pdu |-> << 1, 16 >>, dev |-> 3],
                 [pdu |-> << 2, 16, 32 >>, dev |-> 7] }

Sendings ==
    [garbage : 0..MaxGarbage, frames : { << a >> : a \in FrameSpecs }]
    \cup [garbage : { 0 },
          frames : { << a, b >> : a \in FrameSpecs, b \in SecondSpecs }]

RECURSIVE Wire(_)
Wire(frames) ==
    IF frames = << >> THEN << >>
    ELSE encode(frames[1].pdu, frames[1].dev, 0) \o Wire(Tail(frames))

\* the slave argument: a list of ids or a single id
SlaveArgs == { << "list", << >> >>, << "list", << 3 >> >>, << "list", << 0, 3 >> >>,
               << "int", 0 >>, << "int", 7 >> }

\* the tid argument: << >> is None
TidArgs == { << >>, << 7 >>, << 42 >> }

\* transaction ids a framer variant stamps on its frames
VariantTids == { 0, 7 }

(***************************************************************************)
(* State.                                                                  *)
(***************************************************************************)
VARIABLES
    framer,           \* class of the framer instance
    variant_tid,      \* transaction id the variant stamps on a frame
    slave,            \* slave argument the transport passes
    tid,              \* tid argument the transport passes
    sent,             \* what the peer sent
    stream,           \* the bytes on the wire
    pos,              \* number of wire bytes already delivered
    databuffer,       \* self.databuffer
    incoming_dev_id,  \* self.incoming_dev_id
    incoming_tid,     \* self.incoming_tid
    log,              \* data argument of each processIncomingPacket call so far
    trace,            \* loop events of the last processIncomingPacket call
    handled,          \* every message handed to the callback so far, in order
    err,              \* how the last call ended
    op,               \* last direct framer call: "none", "encode", "decode"
    encArg,           \* arguments of the last encode call
    wire,             \* result of the last encode call
    decArg,           \* argument of the last decode call
    ret,              \* result of the last decode call
    nops,             \* number of direct framer calls so far
    prev,             \* the framer as the direct call before the last left it
    crcCall           \* last direct compute_CRC / check_CRC call

vars == << framer, variant_tid, slave, tid, sent, stream, pos, databuffer,
           incoming_dev_id, incoming_tid, log, trace, handled, err,
           op, encArg, wire, decArg, ret, nops, prev, crcCall >>

configVars == << framer, variant_tid, slave, tid, sent, stream >>

codecVars == << op, encArg, wire, decArg, ret, nops, prev >>

\* what a direct call keeps of the state it found
Snapshot ==
    [op |-> op, decArg |-> decArg, ret |-> ret, databuffer |-> databuffer,
     incoming_dev_id |-> incoming_dev_id, incoming_tid |-> incoming_tid]

\* no CRC call made yet
NoCrcCall ==
    [fn |-> "none", orig |-> << >>, data |-> << >>, crc |-> 0, ok |-> FALSE]

\* FramerBase.__init__ and the idle environment
InitFramer ==
    /\ databuffer = << >>
    /\ incoming_dev_id = 0
    /\ incoming_tid = 0
    /\ pos = 0
    /\ log = << >>
    /\ trace = << >>
    /\ handled = << >>
    /\ err = "none"
    /\ op = "none"
    /\ encArg = [pdu |-> << >>, dev |-> 0, tid |-> 0]
    /\ wire = << >>
    /\ decArg = << >>
    /\ ret = << >>
    /\ nops = 0
    /\ prev = Snapshot
    /\ crcCall = NoCrcCall

Init ==
    /\ framer \in { "FramerRTU", "FramerSpec" }
    /\ variant_tid \in (IF framer = "FramerRTU" THEN { 0 } ELSE VariantTids)
    /\ slave \in SlaveArgs
    /\ tid \in TidArgs
    /\ sent \in Sendings
    /\ stream = Garbage(sent.garbage) \o Wire(sent.frames)
    /\ InitFramer

(***************************************************************************)
(* The transport delivers the next k wire bytes.                           *)
(***************************************************************************)
Deliver(k) ==
    /\ Len(log) < MaxCalls
    /\ k \in 0..(Len(stream) - pos)
    /\ \E data \in { Slice(stream, pos, pos + k) } :
       \E r \in { processIncomingPacket(framer, variant_tid, databuffer,
                                        incoming_dev_id, incoming_tid,
                                        data, slave, tid) } :
           /\ databuffer' = r.databuffer
           /\ incoming_dev_id' = r.dev
           /\ incoming_tid' = r.tid
           /\ trace' = r.trace
           /\ err' = r.err
           /\ handled' = handled \o Dispatched(r.trace)
           /\ log' = Append(log, data)
           /\ pos' = pos + k
    /\ UNCHANGED configVars
    /\ UNCHANGED codecVars
    /\ UNCHANGED crcCall

Next == \E k \in 0..Len(stream) : Deliver(k)

Spec == Init /\ [][Next]_vars

(***************************************************************************)
(* Direct calls of the framer's encode and decode.                         *)
(***************************************************************************)
\* PDUs handed to encode directly: the protocol's and the empty PDU
EncPayloads == Payloads \cup { << >> }

\* device ids handed to encode directly: both ends of the byte range and one
\* in between
EncDevIds == { 0, 3, 255 }

EncTids == { 0, 42 }

\* byte strings handed to decode: the last encoded frame, whole, cut short,
\* doubled, behind garbage
DecodeInputs(w) ==
    { Slice(w, 0, k) : k \in 0..Len(w) }
    \cup { Garbage(n) \o w : n \in 1..MaxGarbage }
    \cup { w \o w }

CallEncode(pdu, dev, t) ==
    /\ nops < MaxOps
    /\ op' = "encode"
    /\ encArg' = [pdu |-> pdu, dev |-> dev, tid |-> t]
    /\ wire' = encode(pdu, dev, t)
    /\ nops' = nops + 1
    /\ prev' = Snapshot
    /\ UNCHANGED << decArg, ret >>
    /\ UNCHANGED configVars
    /\ UNCHANGED << pos, databuffer, incoming_dev_id, incoming_tid, log, trace,
                    handled, err, crcCall >>

CallDecode(data) ==
    /\ nops < MaxOps
    /\ \E d \in { decode(framer, data, incoming_dev_id, incoming_tid,
                          variant_tid) } :
           /\ ret' = d.ret
           /\ incoming_dev_id' = d.dev
           /\ incoming_tid' = d.tid
    /\ op' = "decode"
    /\ decArg' = data
    /\ nops' = nops + 1
    /\ prev' = Snapshot
    /\ UNCHANGED << encArg, wire >>
    /\ UNCHANGED configVars
    /\ UNCHANGED << pos, databuffer, log, trace, handled, err, crcCall >>

InitCodec ==
    /\ framer \in { "FramerRTU", "FramerSpec" }
    /\ variant_tid \in (IF framer = "FramerRTU" THEN { 0 } ELSE VariantTids)
    /\ slave = << "list", << >> >>
    /\ tid = << >>
    /\ sent = [garbage |-> 0, frames |-> << >>]
    /\ stream = << >>
    /\ InitFramer

NextCodec ==
    \/ \E pdu \in EncPayloads, dev \in EncDevIds, t \in EncTids :
           CallEncode(pdu, dev, t)
    \/ \E data \in DecodeInputs(wire) : CallDecode(data)

SpecCodec == InitCodec /\ [][NextCodec]_vars

(***************************************************************************)
(* Direct calls of the class methods compute_CRC and check_CRC: a CRC is   *)
(* computed over a byte string, then the string, as it is or with one bit  *)
(* flipped, is checked against that CRC.                                   *)
(***************************************************************************)
\* byte values handed to compute_CRC
CrcBytes == { 0, 1, 165, 255 }

\* the byte strings over CrcBytes of length 0..n
ByteSeqs(n) == UNION { [1..k -> CrcBytes] : k \in 0..n }

\* d with bit b of byte i (1-based) flipped
FlipBit(d, i, b) == [d EXCEPT ![i] = Xor(@, 2 ^ b)]

\* d and every string that differs from d in exactly one bit
Corruptions(d) ==
    { d } \cup { FlipBit(d, i, b) : i \in 1..Len(d), b \in 0..7 }

\* one CRC is computed in a behaviour, any number of checks follow
CallComputeCRC(d) ==
    /\ crcCall.fn = "none"
    /\ crcCall' = [fn |-> "compute_CRC", orig |-> d, data |-> d,
                   crc |-> compute_CRC(d), ok |-> FALSE]
    /\ UNCHANGED configVars
    /\ UNCHANGED codecVars
    /\ UNCHANGED << pos, databuffer, incoming_dev_id, incoming_tid, log, trace,
                    handled, err >>

CallCheckCRC(d) ==
    /\ crcCall.fn # "none"
    /\ crcCall' = [fn |-> "check_CRC", orig |-> crcCall.orig, data |-> d,
                   crc |-> crcCall.crc, ok |-> check_CRC(d, crcCall.crc)]
    /\ UNCHANGED configVars
    /\ UNCHANGED codecVars
    /\ UNCHANGED << pos, databuffer, incoming_dev_id, incoming_tid, log, trace,
                    handled, err >>

InitCRC ==
    /\ framer = "FramerRTU"
    /\ variant_tid = 0
    /\ slave = << "list", << >> >>
    /\ tid = << >>
    /\ sent = [garbage |-> 0, frames |-> << >>]
    /\ stream = << >>
    /\ InitFramer

NextCRC ==
    \/ \E d \in ByteSeqs(MaxCrcLen) : CallComputeCRC(d)
    \/ \E d \in Corruptions(crcCall.orig) : CallCheckCRC(d)

SpecCRC == InitCRC /\ [][NextCRC]_vars

(***************************************************************************)
(* Properties.                                                             *)
(***************************************************************************)
\* the accepted-id collection after normalisation lets device id dev pass
Accepts(sl, dev) ==
    LET ids == slave_list(sl)
    IN  \/ ids = << >>
        \/ \E i \in 1..Len(ids) : ids[i] = 0 \/ ids[i] = dev

\* the codec can interpret the PDU
Decodable(pdu) == decoder_decode(pdu) # << >>

\* the event's decode recognized a frame
Recognized(e) == Len(e.ret) = 2 /\ e.ret[2] # EMPTY

LastEvent == trace[Len(trace)]

\* the whole wire stream was delivered in the first call
WholeInOneCall == Len(log) = 1 /\ log[1] = stream /\ stream # << >>

\* every frame sent passes the filter and the codec, no tid is expected
AllDispatchable ==
    /\ tid = << >>
    /\ \A i \in 1..Len(sent.frames) :
           Accepts(slave, sent.frames[i].dev) /\ Decodable(sent.frames[i].pdu)

\* handled holds exactly the frames sent, in order
HandledAllSent ==
    /\ Len(handled) = Len(sent.frames)
    /\ \A i \in 1..Len(sent.frames) :
           /\ handled[i].pdu = sent.frames[i].pdu
           /\ handled[i].slave_id = sent.frames[i].dev

\* C1: two valid frames delivered concatenated in one call on an empty
\* buffer, both accepted and decodable, no tid expected: the handler is
\* invoked exactly twice, with the first frame's message and then the
\* second's.
C1_TwoFramesDispatchedInOrder ==
    (WholeInOneCall /\ Len(sent.frames) = 2 /\ AllDispatchable)
        => HandledAllSent

\* the wire stream is one frame, delivered in two non-empty pieces
SplitInTwoCalls ==
    /\ Len(log) = 2
    /\ sent.garbage = 0
    /\ Len(sent.frames) = 1
    /\ log[1] # << >>
    /\ log[2] # << >>
    /\ log[1] \o log[2] = stream

\* C2: a valid frame delivered in two pieces, cut at any offset, gives the
\* same handler invocations and leaves the same buffer as the frame
\* delivered to the same framer in one call.
C2_SplitEqualsWhole ==
    SplitInTwoCalls =>
        LET whole == processIncomingPacket(framer, variant_tid, << >>, 0, 0,
                                           stream, slave, tid)
        IN  /\ handled = Dispatched(whole.trace)
            /\ databuffer = whole.databuffer

\* a split frame reached the handler
C2_Witness == SplitInTwoCalls /\ Len(handled) = 1 /\ Len(log[1]) >= MIN_SIZE

\* C3: decode of the uninterrupted buffer encode(payload, dev, tid), for a
\* valid payload, returns the frame's length and the original payload.
C3_DecodeInvertsEncode ==
    (op = "decode" /\ encArg.pdu \in Payloads /\ decArg = wire)
        => ret = << Len(wire), encArg.pdu >>

\* C4: N >= 1 garbage bytes then one valid frame, in one call: the handler
\* is invoked exactly once, with the frame's payload.
C4_GarbageThenFrameDispatched ==
    (WholeInOneCall /\ sent.garbage >= 1 /\ Len(sent.frames) = 1
         /\ AllDispatchable)
        => HandledAllSent

\* C5: a recognized frame whose device id is not accepted (the accepted ids
\* are non-empty and do not contain 0) is not handed to the handler, and
\* the buffer is empty when the call returns.
C5_FilteredFrameDropped ==
    \A i \in 1..Len(trace) :
        (Recognized(trace[i]) /\ ~Accepts(slave, trace[i].msg.slave_id))
            => /\ trace[i].kind = "filter"
               /\ databuffer = << >>

\* a frame for another device, with more bytes behind it, was filtered
C5_Witness ==
    \E i \in 1..Len(trace) :
        /\ trace[i].kind = "filter"
        /\ Len(trace[i].before) > trace[i].ret[1]
        /\ slave = << "list", << 3 >> >>
        /\ trace[i].msg.slave_id = 7

\* the event produced a message (the frame passed filter and codec) whose
\* transaction id is non-zero and differs from the non-zero expected one
StaleReply(e) ==
    /\ e.kind \in { "tid", "call" }
    /\ tid # << >>
    /\ tid[1] # 0
    /\ e.msg.transaction_id # 0
    /\ e.msg.transaction_id # tid[1]

\* C6: a decoded message with a non-zero transaction id different from the
\* non-zero expected one is not handed to the handler, the whole buffer is
\* discarded and the call returns normally.
C6_StaleReplyDropped ==
    \A i \in 1..Len(trace) :
        StaleReply(trace[i])
            => /\ trace[i].kind = "tid"
               /\ trace[i].after = << >>
               /\ databuffer = << >>
               /\ err = "none"

\* a stale reply with more bytes behind it was dropped
C6_Witness ==
    \E i \in 1..Len(trace) :
        /\ StaleReply(trace[i])
        /\ Len(trace[i].before) > trace[i].ret[1]
        /\ tid = << 42 >>
        /\ trace[i].msg.transaction_id = 7

\* the event's frame passed framing and the filter, the codec returns None
Undecodable(e) ==
    /\ Recognized(e)
    /\ Accepts(slave, e.msg.slave_id)
    /\ ~Decodable(e.ret[2])

\* C7: when the codec returns no message for an accepted frame, the buffer
\* is emptied, ModbusIOException reaches the caller, and neither that frame
\* nor anything buffered behind it reaches the handler.
C7_UndecodableClearsAndRaises ==
    \A i \in 1..Len(trace) :
        Undecodable(trace[i])
            => /\ trace[i].kind = "codec"
               /\ i = Len(trace)
               /\ databuffer = << >>
               /\ err = "ModbusIOException"

\* an undecodable frame with more bytes behind it was met
C7_Witness ==
    \E i \in 1..Len(trace) :
        /\ Undecodable(trace[i])
        /\ Len(trace[i].before) > trace[i].ret[1]
        /\ err = "ModbusIOException"

\* C8: with the RTU framer processIncomingPacket raises only when the
\* codec fails on a recognized frame; every other outcome returns normally.
C8_OnlyUndecodableRaises ==
    (framer = "FramerRTU" /\ err # "none")
        => /\ err = "ModbusIOException"
           /\ trace # << >>
           /\ Undecodable(LastEvent)

\* C9: the RTU framer's decode of fewer than MIN_SIZE bytes returns
\* (0, empty), whatever the bytes are.
C9_ShortBufferNeedsMoreData ==
    (framer = "FramerRTU" /\ op = "decode" /\ Len(decArg) < MIN_SIZE)
        => ret = << 0, EMPTY >>

\* C10: when a recognized frame of n > 0 bytes is dispatched, the buffer at
\* the handler's invocation is the buffer handed to decode without its
\* first n bytes.
C10_DispatchDropsOnlyTheFrame ==
    \A i \in 1..Len(trace) :
        (trace[i].kind = "call" /\ trace[i].ret[1] > 0)
            => trace[i].after = Drop(trace[i].before, trace[i].ret[1])

\* all data delivered so far, in delivery order
RECURSIVE Concat(_)
Concat(chunks) ==
    IF chunks = << >> THEN << >> ELSE Head(chunks) \o Concat(Tail(chunks))

Delivered == Concat(log)

IsSuffix(b, d) == Len(b) <= Len(d) /\ Drop(d, Len(d) - Len(b)) = b

\* number of delivered bytes no longer in the buffer
Consumed == Len(Delivered) - Len(databuffer)

\* C11: after every processIncomingPacket call the buffer is a suffix of
\* all data delivered so far, and the number of bytes removed from its
\* front never decreases (a removed byte does not come back).
C11_BufferIsSuffixOfDelivered ==
    [][IsSuffix(databuffer', Delivered') /\ Consumed' >= Consumed]_vars

\* bytes were removed from the front and others are still buffered, after
\* more than one delivery
C11_Witness == Len(log) = 2 /\ Consumed > 0 /\ databuffer # << >>

\* C14: every processIncomingPacket call ends: each loop iteration starts
\* with a shorter buffer than the one before, and the loop does not outlast
\* the buffer's length; on a normal return the buffer is empty or the last
\* decode produced no payload.
C14_LoopEndsEmptyOrNeedingData ==
    /\ err # "nonterminating"
    /\ \A i \in 1..(Len(trace) - 1) :
           Len(trace[i + 1].before) < Len(trace[i].before)
    /\ (Len(log) > 0 /\ err = "none")
           => \/ databuffer = << >>
              \/ /\ trace # << >>
                 /\ Len(LastEvent.ret) = 2
                 /\ LastEvent.ret[2] = EMPTY

\* a call dispatched a frame and then returned needing more data
C14_Witness ==
    /\ Len(trace) >= 2
    /\ err = "none"
    /\ databuffer # << >>
    /\ trace[1].kind = "call"

\* the event's decode produced no payload
NoFrame(e) == Len(e.ret) = 2 /\ e.ret[2] = EMPTY

\* C16: when decode returns (n, empty) the loop stops without invoking the
\* handler and the call returns; the first n bytes are removed when n > 0
\* and the buffer is left unchanged when n = 0.
C16_EmptyPayloadStopsLoop ==
    \A i \in 1..Len(trace) :
        NoFrame(trace[i])
            => /\ trace[i].kind = "nodata"
               /\ i = Len(trace)
               /\ err = "none"
               /\ databuffer = trace[i].after
               /\ trace[i].after = IF trace[i].ret[1] > 0
                                   THEN Drop(trace[i].before, trace[i].ret[1])
                                   ELSE trace[i].before

\* decode asked for one leading byte to be dropped, without a frame
C16_Witness ==
    /\ trace # << >>
    /\ LastEvent.ret = << 1, EMPTY >>
    /\ Len(LastEvent.before) > MIN_SIZE
    /\ databuffer = Tail(LastEvent.before)

\* the slave argument is an empty list, a list holding 0, or the int 0
AcceptsAll ==
    \/ /\ slave[1] = "list"
       /\ \/ slave[2] = << >>
          \/ \E i \in 1..Len(slave[2]) : slave[2][i] = 0
    \/ /\ slave[1] = "int"
       /\ slave[2] = 0

\* the transaction check lets a frame of this framer variant pass
PassesTidCheck ==
    \/ tid = << >>
    \/ tid[1] = 0
    \/ variant_tid = 0
    \/ tid[1] = variant_tid

\* C17: with an empty accepted-id collection, one holding 0, or the scalar
\* 0, no recognized frame is rejected by the device filter: each one the
\* codec decodes and the transaction check passes reaches the handler.
C17_WildcardAcceptsEveryDevice ==
    AcceptsAll =>
        \A i \in 1..Len(trace) :
            Recognized(trace[i])
                => /\ trace[i].kind # "filter"
                   /\ (Decodable(trace[i].ret[2]) /\ PassesTidCheck)
                          => trace[i].kind = "call"

\* a frame of a device not named in a list holding 0 reached the handler
C17_Witness ==
    /\ slave = << "list", << 0, 3 >> >>
    /\ \E i \in 1..Len(trace) :
           trace[i].kind = "call" /\ trace[i].msg.slave_id = 7

C12_EncodeLayout ==
    op = "encode" =>
        LET p == encArg.pdu
            c == compute_CRC(<< encArg.dev >> \o p)
        IN  /\ Len(wire) = Len(p) + 3
            /\ wire[1] = encArg.dev
            /\ Slice(wire, 1, Len(p) + 1) = p
            /\ wire[Len(p) + 2] = c \div 256
            /\ wire[Len(p) + 3] = c % 256

\* a three-byte payload was encoded with a non-zero tid, and the two CRC
\* bytes differ
C12_Witness ==
    /\ op = "encode"
    /\ encArg.tid = 42
    /\ encArg.dev = 255
    /\ Len(encArg.pdu) = 3
    /\ wire[Len(wire) - 1] # wire[Len(wire)]

\* C13: check_CRC(d, compute_CRC(d)) is true, and false for every d' that
\* differs from d in exactly one bit.
C13_SingleBitFlipDetected ==
    crcCall.fn = "check_CRC" =>
        /\ crcCall.data = crcCall.orig => crcCall.ok
        /\ crcCall.data # crcCall.orig => ~crcCall.ok

\* a string of the largest length, one bit flipped, was checked and refused
C13_Witness ==
    /\ crcCall.fn = "check_CRC"
    /\ Len(crcCall.orig) = MaxCrcLen
    /\ crcCall.data # crcCall.orig
    /\ ~crcCall.ok

\* C15: when a decode call yields an empty payload the correlation state
\* is (0, 0) on return; it is (0, 0) after construction.
C15_EmptyPayloadClearsCorrelation ==
    /\ op = "none" => (incoming_dev_id = 0 /\ incoming_tid = 0)
    /\ (op = "decode" /\ ret[Len(ret)] = EMPTY)
           => (incoming_dev_id = 0 /\ incoming_tid = 0)

RECURSIVE RefShift(_, _)
RefShift(reg, n) ==
    IF n = 0 THEN reg
    ELSE RefShift(IF reg % 2 = 1 THEN Xor(reg \div 2, 40961) ELSE reg \div 2,
                  n - 1)

\* one byte: XOR into the low byte, then 8 shifts
RefStep(reg, byte) == RefShift(Xor(reg, byte), 8)

RECURSIVE RefCRC(_, _, _)
RefCRC(data, i, reg) ==
    IF i > Len(data) THEN reg ELSE RefCRC(data, i + 1, RefStep(reg, data[i]))

ByteSwap(x) == ((x % 256) * 256) + (x \div 256)

\* the lookup table has 256 entries in 0..0xFFFF, entry i being the
\* reference step of byte i from a zero register
TableIsReference ==
    /\ DOMAIN crc16_table = 0..255
    /\ \A i \in 0..255 :
           /\ crc16_table[i] \in 0..65535
           /\ crc16_table[i] = RefStep(0, i)

\* C20: compute_CRC(d) is the byte-swapped bitwise reference CRC-16 of d
\* and lies in 0..0xFFFF; the lookup table is the reference's, 256 entries
\* of 16 bits.
C20_TableCrcEqualsBitwise ==
    /\ TableIsReference
    /\ crcCall.fn = "compute_CRC"
           => /\ crcCall.crc = ByteSwap(RefCRC(crcCall.data, 1, 65535))
              /\ crcCall.crc \in 0..65535

\* the CRC of a string of the largest length was computed, and its two
\* bytes differ
C20_Witness ==
    /\ crcCall.fn = "compute_CRC"
    /\ Len(crcCall.data) = MaxCrcLen
    /\ crcCall.crc \div 256 # crcCall.crc % 256

====
